---- MODULE Spec2Model ----
(***************************************************************************)
(* Ensemble sentiment trader: the no-look-ahead slicing of data_fetcher.py, *)
(* the ten voting models of models/, the aggregation of ensemble.py and    *)
(* the backtest loops of app.py.                                           *)
(*                                                                         *)
(* A DataFrame is a sequence of rows in index order.  A row is a record    *)
(* whose field "date" is the index label (a day number) and whose other    *)
(* fields are the columns present.  Prices are integers; a quantity the    *)
(* code computes in floating point is kept as an exact fraction            *)
(* [num, den] or compared by cross-multiplication.                         *)
(***************************************************************************)
EXTENDS Integers, Sequences, FiniteSets, TLC

VARIABLES
    full_data,      \* app.py:36   the primary (SPY) master series
    master_index,   \* the type of full_data.index: a DatetimeIndex or not
    vix_data,       \* app.py:37   the VIX frame, NoneValue when not supplied
    sector_data,    \* app.py:38   dict sector name -> frame
    pc,             \* position of the script / of the caller
    call,           \* the last library call and what it returned
    results,        \* app.py:71   the live forecast's EnsembleResult
    single,         \* app.py:177-223 the single-date reality check
    date_range,     \* app.py:285  trading dates of the backtest range
    loop_i,         \* app.py:296  index of the backtest loop
    results_list,   \* app.py:293  the backtest records
    notice,         \* the st.error / st.warning message of the backtest tab
    request,        \* app.py:250-264 the start and end date of the backtest
    summary,        \* app.py:327-426 the metrics shown after the loop
    fit_seed        \* selects what the external fitting libraries return

vars == <<full_data, master_index, vix_data, sector_data, pc, call, results, single,
          date_range, loop_i, results_list, notice, request, summary,
          fit_seed>>

-----------------------------------------------------------------------------
(* Bounds of the model *)

\* day numbers of the small master series are 1..MaxDay
MaxDay == 4
\* the date pickers offer MaxSpan + 1 trading days of the master series
MaxSpan == 4
\* fit_seed ranges over 0..MaxSeed
MaxSeed == 1

-----------------------------------------------------------------------------
(* Values *)

\* pandas NaN in a column of non-negative numbers
NaN == -1
\* Python None, for a frame argument that was not supplied
NoneValue == <<[none |-> TRUE]>>

isna(x) == x = NaN

Max2(a, b) == IF a >= b THEN a ELSE b
Min2(a, b) == IF a <= b THEN a ELSE b
Abs(x) == IF x < 0 THEN -x ELSE x

\* the index labels of a frame, in index order
Index(data) == [i \in 1..Len(data) |-> data[i].date]
IndexSet(data) == {data[i].date : i \in 1..Len(data)}

\* data[col] raises KeyError when the column is missing
HasCol(data, col) == \A i \in 1..Len(data) : col \in DOMAIN data[i]

-----------------------------------------------------------------------------
(* data_fetcher.py *)

\* faulty variant: the mask data.index < target_date
slice_before(data, target_date) ==
    SelectSeq(data, LAMBDA r : r.date < target_date)

\* faulty variant: the evaluation day itself, the last row kept, is cut off
slice_open_window(data, target_date) ==
    LET kept == SelectSeq(data, LAMBDA r : r.date <= target_date)
    IN  SubSeq(kept, 1, Len(kept) - 1)

\* data[data.index <= target_date].copy(): a boolean mask over the rows
slice_data_to_date(data, target_date) ==
    SelectSeq(data, LAMBDA r : r.date <= target_date)

\* (None, None)
NoReturn == [ok |-> FALSE, raised |-> FALSE]
\* data.loc[..., 'Close'] raises KeyError
ReturnRaised == [ok |-> FALSE, raised |-> TRUE]

\* the row labelled d (data.loc[d]); the labels are unique
RowAt(data, d) == data[CHOOSE i \in 1..Len(data) : data[i].date = d]

\* faulty variant: data.index >= target_date
FutureDatesInclusive(data, target) ==
    SelectSeq(Index(data), LAMBDA d : d >= target)

\* data.index[data.index > target_date]
FutureDates(data, target) ==
    SelectSeq(Index(data), LAMBDA d : d > target)

(* get_next_day_return: the return is the fraction num/den percent *)
get_next_day_return(data, target_date) ==
    LET available_dates == SelectSeq(Index(data), LAMBDA d : d <= target_date)
        target == IF target_date \in IndexSet(data)
                  THEN target_date
                  ELSE IF Len(available_dates) = 0
                       THEN NaN
                       ELSE available_dates[Len(available_dates)]
        future_dates == FutureDates(data, target)
    IN  IF target_date \notin IndexSet(data) /\ Len(available_dates) = 0
        THEN NoReturn
        ELSE IF Len(future_dates) = 0
        THEN NoReturn
        ELSE IF ~HasCol(data, "Close")
        THEN ReturnRaised
        ELSE LET next_date == future_dates[1]
                 target_close == RowAt(data, target).Close
                 next_close == RowAt(data, next_date).Close
             IN  [ok |-> TRUE, raised |-> FALSE,
                  num |-> (next_close - target_close) * 100,
                  den |-> target_close,
                  next_date |-> next_date]

get_latest_trading_date(data) == data[Len(data)].date

(* DataFrame.reindex(index, method='ffill')['Close'].  For every target    *)
(* label pandas looks up, in the ascending source index, the position      *)
(* searchsorted(label, side='right') - 1 and takes that row, or NaN when    *)
(* the position is before the first row.                                   *)
RECURSIVE SearchSortedRight(_, _, _, _)
\* the number of rows of src[lo+1..hi] and before that are dated <= label,
\* by bisection: rows up to lo are <= label, rows after hi are > label
SearchSortedRight(src, label, lo, hi) ==
    IF lo >= hi THEN lo
    ELSE LET mid == (lo + hi + 1) \div 2
         IN  IF src[mid].date <= label
             THEN SearchSortedRight(src, label, mid, hi)
             ELSE SearchSortedRight(src, label, lo, mid - 1)

\* faulty variant: method='bfill', the first source row at or after the label
PadValueBackfill(src, label) ==
    LET pos == SearchSortedRight(src, label - 1, 0, Len(src)) + 1
    IN  IF pos > Len(src) THEN NaN ELSE src[pos].Close

PadValue(src, label) ==
    LET pos == SearchSortedRight(src, label, 0, Len(src))
    IN  IF pos = 0 THEN NaN ELSE src[pos].Close

reindex_ffill(src, index) ==
    [k \in 1..Len(index) |-> PadValue(src, index[k])]

-----------------------------------------------------------------------------
(* models/: what a model returns.  The explanation string and the          *)
(* model-specific diagnostic fields carry no decision and are left out.    *)
(* Raised stands for an exception leaving the model function.              *)

VoteResult(v, s) == [vote |-> v, signal |-> s, raised |-> FALSE]
Raised == [vote |-> 0, signal |-> "raised", raised |-> TRUE]

\* faulty variant: a history too short is reported as a neutral reading
InsufficientAsNeutral == VoteResult(0, "Neutral")

\* what a model returns from the length test it begins with
InsufficientData == VoteResult(0, "Insufficient Data")

\* faulty variant: a history of exactly the required length is turned away
TooShortInclusive(data, min_rows) == Len(data) <= min_rows

\* len(data) < min_rows, the length test a model begins with
TooShort(data, min_rows) == Len(data) < min_rows

RECURSIVE SumRange(_, _, _)
\* f[from] + ... + f[to], summed by halves
SumRange(f, from, to) ==
    IF from > to THEN 0
    ELSE IF from = to THEN f[from]
    ELSE LET mid == (from + to) \div 2
         IN  SumRange(f, from, mid) + SumRange(f, mid + 1, to)

\* sum, max and min of column col over rows from..to
SumCol(data, col, from, to) ==
    SumRange([i \in from..to |-> data[i][col]], from, to)

MaxCol(data, col, from, to) ==
    CHOOSE m \in {data[i][col] : i \in from..to} :
        \A i \in from..to : data[i][col] <= m

MinCol(data, col, from, to) ==
    CHOOSE m \in {data[i][col] : i \in from..to} :
        \A i \in from..to : data[i][col] >= m

(* rsi_model.py *)

RsiPeriod == 14
RsiMinRows == 15
RsiOversold == 30
RsiOverbought == 70

\* delta.where(delta > 0, 0) at row i: the NaN of the first row becomes 0
Gain(data, i) ==
    IF i = 1 THEN 0 ELSE Max2(data[i].Close - data[i - 1].Close, 0)
\* -delta.where(delta < 0, 0) at row i
Loss(data, i) ==
    IF i = 1 THEN 0 ELSE Max2(data[i - 1].Close - data[i].Close, 0)

SumGain(data, from, to) ==
    SumRange([i \in from..to |-> Gain(data, i)], from, to)
SumLoss(data, from, to) ==
    SumRange([i \in from..to |-> Loss(data, i)], from, to)

(* calculate_rsi(data).iloc[-1] as the fraction num/den, or NaN.  The two   *)
(* rolling means share the divisor 14, so rs = gain/loss is the ratio of    *)
(* the sums; gain/0 is inf (RSI 100) and 0/0 is NaN.                        *)
calculate_rsi(data) ==
    LET n == Len(data)
        g == SumGain(data, n - RsiPeriod + 1, n)
        l == SumLoss(data, n - RsiPeriod + 1, n)
    IN  IF n < RsiPeriod THEN [nan |-> TRUE, num |-> 0, den |-> 1]
        ELSE IF l = 0 /\ g = 0 THEN [nan |-> TRUE, num |-> 0, den |-> 1]
        ELSE IF l = 0 THEN [nan |-> FALSE, num |-> 100, den |-> 1]
        ELSE [nan |-> FALSE, num |-> 100 * g, den |-> g + l]

\* faulty variant: an RSI of exactly 30 or 70 already votes
RsiRuleInclusive(current_rsi) ==
    IF current_rsi.num <= RsiOversold * current_rsi.den
    THEN VoteResult(1, "Bullish (Oversold)")
    ELSE IF current_rsi.num >= RsiOverbought * current_rsi.den
    THEN VoteResult(-1, "Bearish (Overbought)")
    ELSE VoteResult(0, "Neutral")

\* the if/elif chain over a current_rsi that is not NaN
RsiRule(current_rsi) ==
    IF current_rsi.num < RsiOversold * current_rsi.den
    THEN VoteResult(1, "Bullish (Oversold)")
    ELSE IF current_rsi.num > RsiOverbought * current_rsi.den
    THEN VoteResult(-1, "Bearish (Overbought)")
    ELSE VoteResult(0, "Neutral")

get_rsi_vote(data) ==
    IF TooShort(data, RsiMinRows) THEN InsufficientData
    ELSE IF ~HasCol(data, "Close") THEN Raised
    ELSE LET current_rsi == calculate_rsi(data)
         IN  IF current_rsi.nan THEN VoteResult(0, "Neutral")
             ELSE RsiRule(current_rsi)

(* mean_reversion_model.py *)

SmaPeriod == 20

\* deviation_pct = (price - sma) / sma * 100 with sma = s / 20, against
\* the thresholds -2.0 and 2.0; s = 0 makes the deviation inf or NaN
get_mean_reversion_vote(data) ==
    IF TooShort(data, SmaPeriod) THEN InsufficientData
    ELSE IF ~HasCol(data, "Close") THEN Raised
    ELSE LET n == Len(data)
             current_price == data[n].Close
             s == SumCol(data, "Close", n - SmaPeriod + 1, n)
             dev == 100 * (SmaPeriod * current_price - s)
         IN  IF s = 0
             THEN (IF current_price > 0 THEN VoteResult(-1, "Bearish (Above SMA)")
                   ELSE VoteResult(0, "Neutral"))
             ELSE IF dev < (-2) * s THEN VoteResult(1, "Bullish (Below SMA)")
             ELSE IF dev > 2 * s THEN VoteResult(-1, "Bearish (Above SMA)")
             ELSE VoteResult(0, "Neutral")

(* technical_support_model.py *)

SupportWindow == 50

\* abs((price - level) / level) * 100 <= 1.0; level = 0 gives inf or NaN
WithinOnePct(price, level) ==
    level > 0 /\ 100 * Abs(price - level) <= level

\* faulty variant: the high is tested before the low
SupportRuleHighFirst(near_low, near_high) ==
    IF near_high THEN VoteResult(-3, "Strong Bearish (Near Resistance)")
    ELSE IF near_low THEN VoteResult(3, "Strong Bullish (Near Support)")
    ELSE VoteResult(0, "Neutral")

\* if dist_to_low_pct <= 1.0 / elif dist_to_high_pct <= 1.0 / else
SupportRule(near_low, near_high) ==
    IF near_low THEN VoteResult(3, "Strong Bullish (Near Support)")
    ELSE IF near_high THEN VoteResult(-3, "Strong Bearish (Near Resistance)")
    ELSE VoteResult(0, "Neutral")

get_technical_support_vote(data) ==
    IF TooShort(data, SupportWindow) THEN InsufficientData
    ELSE IF ~(HasCol(data, "High") /\ HasCol(data, "Low") /\ HasCol(data, "Close"))
    THEN Raised
    ELSE LET n == Len(data)
             high_50d == MaxCol(data, "High", n - SupportWindow + 1, n)
             low_50d == MinCol(data, "Low", n - SupportWindow + 1, n)
             current_price == data[n].Close
         IN  SupportRule(WithinOnePct(current_price, low_50d),
                         WithinOnePct(current_price, high_50d))

(* factor_model.py *)

FactorMinRows == 21
FactorLookback == 20
\* returns are kept in units of 1/RetScale
RetScale == 10000

\* Close.pct_change() at row i >= 2, in fixed point
PctChange(data, i) ==
    ((data[i].Close - data[i - 1].Close) * RetScale) \div data[i - 1].Close

\* pct_change is inf or NaN at a row whose previous close is 0, and the
\* rolling std over a window holding such a row (or row 1) is NaN
VolIsNaN(data, j) ==
    \/ j < FactorMinRows
    \/ \E i \in (j - FactorLookback + 1)..j : data[i - 1].Close = 0

SumRet(data, from, to) ==
    SumRange([i \in from..to |-> PctChange(data, i)], from, to)
SumRetSq(data, from, to) ==
    SumRange([i \in from..to |-> PctChange(data, i) * PctChange(data, i)],
             from, to)

(* returns.rolling(20).std() at row j, up to the positive factor           *)
(* sqrt(252)*100 and the monotone square root: 20*19*variance.             *)
RollingVol(data, j) ==
    LET from == j - FactorLookback + 1
        sm == SumRet(data, from, j)
    IN  FactorLookback * SumRetSq(data, from, j) - sm * sm

\* (rolling_vol.dropna() < current_vol).sum() over the rows valid
VolsBelow(data, valid, current_vol) ==
    Cardinality({j \in valid : RollingVol(data, j) < current_vol})

\* faulty variant: falling prices in a volatile market are voted against
FactorRuleTwoSided(momentum_positive, low_vol) ==
    IF momentum_positive /\ low_vol THEN VoteResult(1, "Bullish")
    ELSE IF ~momentum_positive /\ ~low_vol THEN VoteResult(-1, "Bearish")
    ELSE VoteResult(0, "Neutral")

\* if momentum_positive and vol_percentile <= 50: vote 1, else vote 0
FactorRule(momentum_positive, low_vol) ==
    IF momentum_positive /\ low_vol THEN VoteResult(1, "Bullish")
    ELSE VoteResult(0, "Neutral")

get_factor_vote(data) ==
    IF TooShort(data, FactorMinRows) THEN InsufficientData
    ELSE IF ~HasCol(data, "Close") THEN Raised
    ELSE LET n == Len(data)
             momentum_positive == data[n].Close > data[n - FactorLookback].Close
         IN  IF VolIsNaN(data, n) THEN VoteResult(0, "Neutral")
             ELSE LET valid == {j \in FactorMinRows..n : ~VolIsNaN(data, j)}
                      below == VolsBelow(data, valid, RollingVol(data, n))
                  IN  \* vol_percentile <= 50
                      FactorRule(momentum_positive,
                                 100 * below <= 50 * Cardinality(valid))

(* macd_bb_model.py *)

MacdMinRows == 50
MacdFast == 12
MacdSlow == 26
MacdSignal == 9
BbPeriod == 20
\* exponential means are kept in units of 1/EmaScale
EmaScale == 1000

\* one step of ewm(span, adjust=False).mean(): y + alpha*(x - y), alpha = 2/(span+1)
EmaStep(prev, x, span) == prev + (2 * (x - prev)) \div (span + 1)

\* the fast and slow EMA of Close and the signal line after row k, from
\* their values st after row k - 1
MacdStep(data, k, st) ==
    LET f == EmaStep(st.fast, data[k].Close * EmaScale, MacdFast)
        sl == EmaStep(st.slow, data[k].Close * EmaScale, MacdSlow)
    IN  [fast |-> f, slow |-> sl,
         signal |-> EmaStep(st.signal, f - sl, MacdSignal)]

\* the rows are folded in runs of EmaRun rows, so that no evaluation nests
\* deeper than the number of runs plus the length of one
EmaRun == 16

RECURSIVE MacdRows(_, _, _, _)
\* rows k..last folded into st
MacdRows(data, k, last, st) ==
    IF st.fast < 0 \/ k > last THEN st
    ELSE MacdRows(data, k + 1, last, MacdStep(data, k, st))

RECURSIVE MacdRuns(_, _, _)
\* the state after the first b runs of the rows 1..n
MacdRuns(data, n, b) ==
    IF b = 0
    THEN [fast |-> data[1].Close * EmaScale, slow |-> data[1].Close * EmaScale,
          signal |-> 0]
    ELSE LET prev == MacdRuns(data, n, b - 1)
         IN  IF prev.fast < 0 THEN prev
             ELSE MacdRows(data, Max2(2, (b - 1) * EmaRun + 1),
                           Min2(n, b * EmaRun), prev)

\* calculate_macd(data) at row k: ewm(adjust=False) starts from the first close
MacdState(data, k) == MacdRuns(data, k, (k + EmaRun - 1) \div EmaRun)

SumSq(data, from, to) ==
    SumRange([i \in from..to |-> data[i].Close * data[i].Close], from, to)

(* Bollinger position of the last close.  With s = sum of the last 20      *)
(* closes and q = 20*sum of squares - s*s = 20*19*std^2:                   *)
(*   distance_to_lower / bb_width < 0.2  iff  mean - price > 1.2*std       *)
(*   iff s - 20*price > 0 and 95*(s - 20*price)^2 > 144*q;                 *)
(* std = 0 makes both ratios 0/0 = NaN, and NaN < 0.2 is False.            *)
near_lower_bb(data) ==
    LET n == Len(data)
        s == SumCol(data, "Close", n - BbPeriod + 1, n)
        q == BbPeriod * SumSq(data, n - BbPeriod + 1, n) - s * s
        d == s - BbPeriod * data[n].Close
    IN  q > 0 /\ d > 0 /\ 95 * d * d > 144 * q

near_upper_bb(data) ==
    LET n == Len(data)
        s == SumCol(data, "Close", n - BbPeriod + 1, n)
        q == BbPeriod * SumSq(data, n - BbPeriod + 1, n) - s * s
        d == BbPeriod * data[n].Close - s
    IN  q > 0 /\ d > 0 /\ 95 * d * d > 144 * q

get_macd_bb_vote(data) ==
    IF TooShort(data, MacdMinRows) THEN InsufficientData
    ELSE IF ~HasCol(data, "Close") THEN Raised
    ELSE LET cur == MacdState(data, Len(data))
             current_macd == cur.fast - cur.slow
             macd_bullish == current_macd > cur.signal
             macd_bearish == current_macd < cur.signal
         IN  \* a bullish (bearish) cross implies macd_bullish (macd_bearish)
             IF macd_bullish /\ near_lower_bb(data)
             THEN VoteResult(1, "Bullish (Buy Dip)")
             ELSE IF macd_bearish /\ near_upper_bb(data)
             THEN VoteResult(-1, "Bearish (Sell Rip)")
             ELSE VoteResult(0, "Neutral")

(* market_regime_model.py *)

RegimeMinRows == 200
AdxPeriod == 14

\* plus_dm, minus_dm and the true range at row i >= 2
PlusDm(data, i) == Max2(data[i].High - data[i - 1].High, 0)
MinusDm(data, i) == Max2(data[i - 1].Low - data[i].Low, 0)
TrueRange(data, i) ==
    Max2(data[i].High - data[i].Low,
         Max2(Abs(data[i].High - data[i - 1].Close),
              Abs(data[i].Low - data[i - 1].Close)))

SumDm(data, from, to) ==
    SumRange([i \in from..to |-> PlusDm(data, i) + MinusDm(data, i)], from, to)
SumTr(data, from, to) ==
    SumRange([i \in from..to |-> TrueRange(data, i)], from, to)

(* dx at row i is NaN when its 14-row window reaches row 1 (diff is NaN    *)
(* there), when atr = 0 (x/0), or when plus_di + minus_di = 0 (0/0).       *)
DxIsNaN(data, i) ==
    \/ i - AdxPeriod + 1 < 2
    \/ SumTr(data, i - AdxPeriod + 1, i) = 0
    \/ SumDm(data, i - AdxPeriod + 1, i) = 0

\* calculate_adx(data).iloc[-1] is NaN: dx.rolling(14).mean() over a NaN
AdxIsNaN(data) ==
    LET n == Len(data)
    IN  \/ n - AdxPeriod + 1 < 1
        \/ \E i \in (n - AdxPeriod + 1)..n : DxIsNaN(data, i)

get_market_regime_vote(data) ==
    IF TooShort(data, RegimeMinRows) THEN InsufficientData
    ELSE IF ~(HasCol(data, "High") /\ HasCol(data, "Low") /\ HasCol(data, "Close"))
    THEN Raised
    ELSE LET n == Len(data)
             current_price == data[n].Close
             s20 == SumCol(data, "Close", n - 19, n)
             s50 == SumCol(data, "Close", n - 49, n)
             s200 == SumCol(data, "Close", n - 199, n)
             above_50 == 50 * current_price > s50
             above_200 == 200 * current_price > s200
         IN  IF AdxIsNaN(data) THEN VoteResult(0, "Neutral")
             ELSE IF above_50 /\ above_200
             THEN (IF 20 * current_price < s20
                   THEN VoteResult(2, "Bullish (Buy Dip)")
                   ELSE VoteResult(1, "Bullish (Trending)"))
             ELSE IF ~above_50 /\ ~above_200
             THEN (IF 20 * current_price > s20
                   THEN VoteResult(-2, "Bearish (Sell Rally)")
                   ELSE VoteResult(-1, "Bearish (Trending)"))
             ELSE IF 50 * current_price < s50
             THEN VoteResult(1, "Mean Reversion Buy")
             ELSE IF 50 * current_price > s50
             THEN VoteResult(-1, "Mean Reversion Sell")
             ELSE VoteResult(0, "Neutral")

(* garch_model.py *)

GarchMinRows == 100

(* arch_model(returns).fit() and its one-step forecast are an external     *)
(* numerical optimisation.  What it returns is a function of the returns   *)
(* alone; which function is not modelled: fit_seed and a digest of the     *)
(* series select one of the outcomes the code distinguishes.               *)
\*   "lower":  forecast_vol < current_vol
\*   "higher": forecast_vol >= current_vol
\*   "nan":    a NaN volatility, for which the comparison is False
\*   "error":  the import, the fit or the forecast raises
GarchOutcomes == <<"lower", "higher", "nan", "error">>

arch_fit(data) ==
    GarchOutcomes[((SumCol(data, "Close", 1, Len(data)) + fit_seed) % 4) + 1]

get_garch_vote(data) ==
    IF TooShort(data, GarchMinRows) THEN InsufficientData
    ELSE IF ~HasCol(data, "Close") THEN VoteResult(0, "Model Failed")
    \* returns = pct_change().dropna() has one row less than data
    ELSE IF Len(data) - 1 < GarchMinRows THEN VoteResult(0, "Insufficient Data")
    ELSE LET fit == arch_fit(data)
         IN  IF fit = "error" THEN VoteResult(0, "Model Failed")
             ELSE IF fit = "lower" THEN VoteResult(3, "Bullish (Vol Decreasing)")
             ELSE VoteResult(-3, "Bearish (Vol Increasing)")

(* vix_regime_model.py *)

VixMinRows == 20
VixHigh == 25
VixLow == 15

\* sum of the non-NaN entries of a column of values
SumValid(col, from, to) ==
    SumRange([i \in from..to |-> IF isna(col[i]) THEN 0 ELSE col[i]], from, to)

CountValid(col, from, to) == Cardinality({i \in from..to : ~isna(col[i])})

\* faulty variant: the levels 15 and 25 fall outside the Normal regime
VixTierOpenBounds(current_vix) ==
    IF current_vix >= VixHigh THEN "High Fear"
    ELSE IF current_vix > VixLow THEN "Normal"
    ELSE "Low/Complacent"

\* if current_vix > 25 / elif current_vix >= 15 / else: the vix_regime
VixTier(current_vix) ==
    IF current_vix > VixHigh THEN "High Fear"
    ELSE IF current_vix >= VixLow THEN "Normal"
    ELSE "Low/Complacent"

get_vix_regime_vote(spy_data, vix) ==
    IF Len(vix) = 0 \/ Len(vix) < VixMinRows THEN VoteResult(0, "No VIX Data")
    ELSE IF Len(spy_data) < 20 THEN VoteResult(0, "Insufficient Data")
    ELSE IF ~HasCol(vix, "Close") THEN VoteResult(0, "Error")
    ELSE LET n == Len(spy_data)
             vix_aligned == reindex_ffill(vix, Index(spy_data))
             current_vix == vix_aligned[n]
             vix_5d_ago == vix_aligned[n - 5]
             \* (current - ago) / ago * 100 if ago > 0 else 0; NaN > 0 is False
             has_change == ~isna(vix_5d_ago) /\ vix_5d_ago > 0
             change_num == IF has_change THEN 100 * (current_vix - vix_5d_ago) ELSE 0
             change_den == IF has_change THEN vix_5d_ago ELSE 1
             sum20 == SumValid(vix_aligned, n - 19, n)
             cnt20 == CountValid(vix_aligned, n - 19, n)
         IN  IF isna(current_vix) THEN VoteResult(0, "VIX Data Missing")
             ELSE IF ~HasCol(spy_data, "Close") THEN VoteResult(0, "Error")
             ELSE LET c == spy_data[n].Close
                      c0 == spy_data[n - 10].Close
                      \* spy_momentum = (c / c0 - 1) * 100 against 2 and -2
                      mom_up == c0 > 0 /\ 100 * (c - c0) > 2 * c0
                      mom_down == c0 > 0 /\ 100 * (c - c0) < (-2) * c0
                  IN  IF VixTier(current_vix) = "High Fear"
                      THEN (IF change_num > 10 * change_den
                            THEN VoteResult(3, "Strong Bullish (Panic Buy)")
                            \* current_vix > vix_20d_avg * 1.2
                            ELSE IF 10 * current_vix * cnt20 > 12 * sum20
                            THEN VoteResult(2, "Bullish (Fear Peak)")
                            ELSE VoteResult(0, "Neutral (High Fear)"))
                      ELSE IF VixTier(current_vix) = "Normal"
                      THEN (IF change_num < (-5) * change_den
                            THEN VoteResult(1, "Bullish (Risk-On)")
                            ELSE IF change_num > 5 * change_den
                            THEN VoteResult(-1, "Bearish (Risk-Off)")
                            ELSE VoteResult(0, "Neutral"))
                      ELSE (IF mom_up THEN VoteResult(2, "Bullish (Momentum)")
                            ELSE IF mom_down
                            THEN VoteResult(-2, "Bearish (Weak Momentum)")
                            ELSE VoteResult(1, "Slightly Bullish"))

(* sector_rotation_model.py *)

SectorMinRows == 15
SectorFrameRows == 11

\* a sector's 10-day momentum can be computed: the frame is long enough and
\* both aligned prices are known, the older one positive
SectorHasMomentum(spy_data, sector_df) ==
    /\ Len(sector_df) >= SectorFrameRows
    /\ LET n == Len(spy_data)
           sector_aligned == reindex_ffill(sector_df, Index(spy_data))
       IN  /\ ~isna(sector_aligned[n])
           /\ ~isna(sector_aligned[n - 10])
           /\ sector_aligned[n - 10] > 0

\* sign of (current / ago - 1) * 100 - pct, as current*100 - (100 + pct)*ago
SectorMomentumCmp(spy_data, sector_df, pct) ==
    LET n == Len(spy_data)
        sector_aligned == reindex_ffill(sector_df, Index(spy_data))
    IN  100 * sector_aligned[n] - (100 + pct) * sector_aligned[n - 10]

get_sector_rotation_vote(spy_data, sectors) ==
    IF DOMAIN sectors = {} THEN VoteResult(0, "No Sector Data")
    ELSE IF Len(spy_data) < SectorMinRows THEN VoteResult(0, "Insufficient Data")
    ELSE LET known == {k \in DOMAIN sectors : SectorHasMomentum(spy_data, sectors[k])}
             strong == {k \in known : SectorMomentumCmp(spy_data, sectors[k], 0) > 0}
             weak == known \ strong
             \* sector_momentum.get('XLK', 0)
             xlk_up == "XLK" \in known
                       /\ SectorMomentumCmp(spy_data, sectors["XLK"], 2) > 0
             xlk_down == "XLK" \in known
                         /\ SectorMomentumCmp(spy_data, sectors["XLK"], -2) < 0
         IN  IF known = {} THEN VoteResult(0, "Data Issue")
             ELSE IF xlk_up THEN VoteResult(2, "Strong Bullish (Tech Leading)")
             ELSE IF xlk_down THEN VoteResult(-2, "Strong Bearish (Tech Weak)")
             ELSE IF Cardinality(strong) > Cardinality(weak)
             THEN VoteResult(1, "Bullish (Sector Rotation Positive)")
             ELSE IF Cardinality(weak) > Cardinality(strong)
             THEN VoteResult(-1, "Bearish (Sector Rotation Negative)")
             ELSE VoteResult(0, "Neutral")

(* ml_model.py *)

MlMinRows == 250
MlMinFeatureRows == 50
MlLongestWindow == 200

\* the VIX_Level column of create_ml_features: the aligned close, or NaN
\* throughout when no VIX frame is supplied or it is empty
VixLevel(data, vix) ==
    IF vix = NoneValue \/ Len(vix) = 0
    THEN [i \in 1..Len(data) |-> NaN]
    ELSE reindex_ffill(vix, Index(data))

(* create_ml_features: the rows df.dropna() keeps, as row numbers of data. *)
(* A row is dropped when any feature is NaN: the 200-day mean before row   *)
(* 200, an RSI of 0/0, a Bollinger position of 0/0, a missing VIX level or *)
(* VIX change, and Next_Day_Return = Close.shift(-1) - Close on the last   *)
(* row.                                                                    *)
create_ml_features(data, vix) ==
    LET n == Len(data)
        level == VixLevel(data, vix)
        RsiNaN(i) == SumGain(data, i - RsiPeriod + 1, i) = 0
                     /\ SumLoss(data, i - RsiPeriod + 1, i) = 0
        BbNaN(i) == LET sm == SumCol(data, "Close", i - BbPeriod + 1, i)
                    IN  BbPeriod * SumSq(data, i - BbPeriod + 1, i) - sm * sm = 0
    IN  {i \in MlLongestWindow..(n - 1) :
            /\ ~RsiNaN(i)
            /\ ~BbNaN(i)
            /\ ~isna(level[i])
            /\ ~isna(level[i - 1])}

(* The classifier (XGBoost or RandomForest, random_state fixed) is an      *)
(* external training procedure: a function of the feature frame, selected  *)
(* here by fit_seed and a digest of the frame.                             *)
\*   "up" / "down": the predicted class, with probability >= 0.55
\*   "low":         predicted-class probability < 0.55
\*   "error":       the import, the fit or the prediction raises
MlOutcomes == <<"up", "down", "low", "error">>

\* the sum of f over the rows S
SumOver(f, S) ==
    SumRange([i \in DOMAIN f |-> IF i \in S THEN f[i] ELSE 0], 1, Len(f))

classifier_fit(data, vix, rows) ==
    LET closes == [i \in 1..Len(data) |-> data[i].Close]
    IN  MlOutcomes[((SumOver(closes, rows) + SumOver(VixLevel(data, vix), rows)
                     + fit_seed) % 4) + 1]

\* df.iloc[-1:]: the last row dropna() has left, the one predicted for
PredictionRow(df) == CHOOSE i \in df : \A j \in df : j <= i

\* df.iloc[:-1]: the rows the classifier is trained on
TrainingRows(df) == df \ {PredictionRow(df)}

\* what get_ml_vote hands to the classifier on a window that reaches the
\* fit: the dates of the training rows, the dates their Target labels read
\* the close of, and the date of the row predicted for
ClassifierInput(data, vix) ==
    LET df == create_ml_features(data, vix)
    IN  IF TooShort(data, MlMinRows)
           \/ ~(HasCol(data, "Close") /\ HasCol(data, "Volume")
                /\ HasCol(data, "High") /\ HasCol(data, "Low"))
           \/ Cardinality(df) < MlMinFeatureRows
        THEN [fitted |-> FALSE, train_dates |-> {}, label_dates |-> {},
              pred_date |-> 0]
        ELSE [fitted |-> TRUE,
              train_dates |-> {data[i].date : i \in TrainingRows(df)},
              label_dates |-> {data[i + 1].date : i \in TrainingRows(df)},
              pred_date |-> data[PredictionRow(df)].date]

get_ml_vote(data, vix) ==
    IF TooShort(data, MlMinRows) THEN InsufficientData
    ELSE IF ~(HasCol(data, "Close") /\ HasCol(data, "Volume")
              /\ HasCol(data, "High") /\ HasCol(data, "Low"))
    THEN VoteResult(0, "Model Failed")
    ELSE LET df == create_ml_features(data, vix)
         IN  IF Cardinality(df) < MlMinFeatureRows
             THEN VoteResult(0, "Insufficient Data")
             ELSE LET fit == classifier_fit(data, vix, df)
                  IN  IF fit = "error" THEN VoteResult(0, "Model Failed")
                      ELSE IF fit = "low" THEN VoteResult(0, "Low Confidence")
                      ELSE IF fit = "up" THEN VoteResult(1, "Bullish")
                      ELSE VoteResult(-1, "Bearish")

-----------------------------------------------------------------------------
(* ensemble.py *)

EnsembleRaised == [raised |-> TRUE]

Entry(name, weight, r) ==
    [model |-> name, vote |-> r.vote, weight |-> weight, signal |-> r.signal]

RECURSIVE SumSigns(_, _)
\* faulty variant: every model counts one vote, whatever its weight
SumSigns(breakdown, k) ==
    IF k = 0 THEN 0
    ELSE (IF breakdown[k].vote > 0 THEN 1
          ELSE IF breakdown[k].vote < 0 THEN -1 ELSE 0)
         + SumSigns(breakdown, k - 1)

\* faulty variant: only the votes above zero count as active
CountPositive(breakdown) ==
    Cardinality({k \in 1..Len(breakdown) : breakdown[k].vote > 0})

\* faulty variant: the thresholds compared with > instead of >=
RecommendationStrict(net_vote) ==
    IF net_vote > 6 THEN "STRONG BUY"
    ELSE IF net_vote > 3 THEN "BUY"
    ELSE IF net_vote > -2 THEN "NEUTRAL / HOLD"
    ELSE IF net_vote > -5 THEN "SELL"
    ELSE "STRONG SELL"

RECURSIVE SumWeighted(_, _)
\* faulty variant: each vote is multiplied by the weight of its model
SumWeighted(breakdown, k) ==
    IF k = 0 THEN 0
    ELSE breakdown[k].vote * breakdown[k].weight + SumWeighted(breakdown, k - 1)

RECURSIVE SumVotes(_, _)
\* sum(item['vote'] for item in breakdown[1..k])
SumVotes(breakdown, k) ==
    IF k = 0 THEN 0 ELSE breakdown[k].vote + SumVotes(breakdown, k - 1)

CountActive(breakdown) ==
    Cardinality({k \in 1..Len(breakdown) : breakdown[k].vote # 0})

\* the if/elif chain over net_vote; the labels are written without the
\* symbol that precedes each of them
Recommendation(net_vote) ==
    IF net_vote >= 6 THEN "STRONG BUY"
    ELSE IF net_vote >= 3 THEN "BUY"
    ELSE IF net_vote >= -2 THEN "NEUTRAL / HOLD"
    ELSE IF net_vote >= -5 THEN "SELL"
    ELSE "STRONG SELL"

RecColor(net_vote) ==
    IF net_vote >= 3 THEN "green"
    ELSE IF net_vote >= -2 THEN "gray"
    ELSE IF net_vote >= -5 THEN "orange"
    ELSE "red"

\* the ten model calls, in call order
ModelResults(data, vix, sectors) ==
    <<get_rsi_vote(data),
      get_mean_reversion_vote(data),
      get_garch_vote(data),
      get_ml_vote(data, vix),
      get_factor_vote(data),
      get_technical_support_vote(data),
      get_macd_bb_vote(data),
      IF vix # NoneValue THEN get_vix_regime_vote(data, vix)
                         ELSE VoteResult(0, "No Data"),
      get_market_regime_vote(data),
      IF DOMAIN sectors # {} THEN get_sector_rotation_vote(data, sectors)
                             ELSE VoteResult(0, "No Data")>>

\* the names run_ensemble gives the ten entries of a breakdown
BreakdownNames ==
    <<"RSI Momentum", "Mean Reversion", "GARCH Volatility", "ML XGBoost",
      "Factor Model", "Technical Support", "MACD + Bollinger", "VIX Regime",
      "Market Regime", "Sector Rotation">>

\* the 'weight' field of the ten entries
BreakdownWeights == <<1, 1, 3, 1, 1, 3, 1, 3, 2, 2>>

\* faulty variant: the entries of the models that voted come first
BreakdownActiveFirst(r) ==
    LET all == [k \in 1..10 |->
                   Entry(BreakdownNames[k], BreakdownWeights[k], r[k])]
    IN  SelectSeq(all, LAMBDA e : e.vote # 0)
            \o SelectSeq(all, LAMBDA e : e.vote = 0)

\* the breakdown list literal
Breakdown(r) ==
    <<Entry("RSI Momentum", 1, r[1]),
      Entry("Mean Reversion", 1, r[2]),
      Entry("GARCH Volatility", 3, r[3]),
      Entry("ML XGBoost", 1, r[4]),
      Entry("Factor Model", 1, r[5]),
      Entry("Technical Support", 3, r[6]),
      Entry("MACD + Bollinger", 1, r[7]),
      Entry("VIX Regime", 3, r[8]),
      Entry("Market Regime", 2, r[9]),
      Entry("Sector Rotation", 2, r[10])>>

\* the result built from the breakdown list and its net vote
EnsembleResult(breakdown, net_vote) ==
    [raised |-> FALSE,
     net_vote |-> net_vote,
     recommendation |-> Recommendation(net_vote),
     rec_color |-> RecColor(net_vote),
     breakdown |-> breakdown,
     active_models |-> CountActive(breakdown)]

\* the aggregation of the ten results r; an exception a model raised is
\* not caught here
Aggregate(r) ==
    IF \E k \in 1..Len(r) : r[k].raised
    THEN EnsembleRaised
    ELSE EnsembleResult(Breakdown(r), SumVotes(Breakdown(r), Len(r)))

run_ensemble(data, vix, sectors) == Aggregate(ModelResults(data, vix, sectors))

-----------------------------------------------------------------------------
(* The data the provider delivers *)

Row(d, c, v) ==
    [date |-> d, Open |-> c, High |-> c + 1, Low |-> c - 1, Close |-> c,
     Volume |-> v]

RECURSIVE SortedSeq(_)
\* the days of S in ascending order
SortedSeq(S) ==
    IF S = {} THEN <<>>
    ELSE LET m == CHOOSE x \in S : \A y \in S : x <= y
         IN  <<m>> \o SortedSeq(S \ {m})

FrameOf(S, close) ==
    LET days == SortedSeq(S)
    IN  [i \in 1..Len(days) |-> Row(days[i], close[days[i]], 1000)]

\* every series over the days 1..MaxDay, trading days missing at will
SmallClose(d) == 10 + ((7 * d) % 5)
SmallFrames ==
    {FrameOf(S, [d \in S |-> SmallClose(d)]) : S \in SUBSET (1..MaxDay)}
\* auxiliary series over the same days, the value telling the day
SmallAux ==
    {FrameOf(S, [d \in S |-> 20 + d]) : S \in SUBSET (1..MaxDay)}

\* the trading calendar: weeks of five trading days with a two-day weekend
\* between them, the first week beginning on a Wednesday
DateOf(i) == i + 2 * ((i + 1) \div 5)

Patterns ==
    {"flat", "band", "rise", "fall", "wave", "dip", "pop", "edge", "pullback",
     "rally"}

\* closes whose 14-day RSI is exactly 30 on day 15, 60 on day 20 and
\* exactly 70 on day 21
EdgeCloses ==
    <<100, 99, 98, 97, 96, 95, 94, 93, 94, 95, 96, 96, 96, 96, 96, 95, 94,
      95, 96, 97, 98>>

\* the close of trading day i of a series of n days
PatternClose(pat, i, n) ==
    CASE pat = "flat" -> 100
      [] pat = "band" -> 200
      [] pat = "rise" -> 100 + (i \div 2)
      [] pat = "fall" -> 170 - (i \div 2)
      [] pat = "wave" -> 100 + Abs((i % 12) - 6)
      [] pat = "dip"  -> IF i > n - 4 THEN 100 + (i \div 4) - 3 * (i - n + 4)
                         ELSE 100 + (i \div 4)
      [] pat = "pop"  -> IF i > n - 4 THEN 150 - (i \div 4) + 3 * (i - n + 4)
                         ELSE 150 - (i \div 4)
      [] pat = "edge" -> IF i <= Len(EdgeCloses) THEN EdgeCloses[i]
                         ELSE EdgeCloses[Len(EdgeCloses)]
      [] pat = "pullback" -> IF i > n - 3
                             THEN 100 + (i \div 2) - 3 * (i - n + 3)
                             ELSE 100 + (i \div 2)
      [] pat = "rally" -> IF i > n - 3
                          THEN 170 - (i \div 2) + 3 * (i - n + 3)
                          ELSE 170 - (i \div 2)

\* trading days first..last of a pattern laid out over n days
GenFrame(pat, first, last, n) ==
    [k \in 1..(last - first + 1) |->
        Row(DateOf(first + k - 1), PatternClose(pat, first + k - 1, n),
            1000 + 10 * ((first + k - 1) % 7))]

\* a frame without its Close column
DropClose(data) ==
    [i \in 1..Len(data) |->
        [c \in (DOMAIN data[i]) \ {"Close"} |-> data[i][c]]]

VixPatterns == {"calm", "normal", "fear", "spike", "surge", "ease", "bounds"}

VixClose(pat, i, n) ==
    CASE pat = "calm"   -> 12
      [] pat = "normal" -> 20
      [] pat = "fear"   -> 30
      [] pat = "spike"  -> IF i > n - 3 THEN 34 ELSE 22
      [] pat = "surge"  -> IF i > n - 8 THEN 34 ELSE 22
      [] pat = "ease"   -> IF i > n - 3 THEN 17 ELSE 21
      \* exactly 15 on day 20 as five days before, exactly 25 from day 21
      [] pat = "bounds" -> IF i <= 15 \/ i = 20 THEN 15
                           ELSE IF i <= 19 THEN 22 ELSE 25

GenVix(pat, first, last, n) ==
    [k \in 1..(last - first + 1) |->
        Row(DateOf(first + k - 1), VixClose(pat, first + k - 1, n), 0)]

-----------------------------------------------------------------------------
(* Library use: a caller applies the operations of data_fetcher.py and     *)
(* run_ensemble to data of its own.                                        *)

NoResult == [none |-> TRUE]
NoCall == [op |-> "none", target |-> 0, window |-> <<>>, out |-> NoResult]
NoSectors == <<>>

\* series around the models' shortest history requirements
EvalLens == {15, 21, 50, 101}
EvalPatterns == {"rise", "dip", "pop"}
EvalFrames ==
    {GenFrame(pat, 1, n, n) : pat \in EvalPatterns, n \in EvalLens}
    \cup {DropClose(GenFrame("rise", 1, 15, 15))}
    \cup {GenFrame("flat", 1, 15, 15), GenFrame("edge", 1, 21, 21)}
\* no VIX at all, an empty frame, a history too short, full histories, and
\* a history that starts on the third trading day
EvalVix ==
    {NoneValue, <<>>, GenVix("calm", 1, 19, 19), GenVix("normal", 1, 25, 25),
     GenVix("spike", 1, 21, 21), GenVix("calm", 3, 30, 30),
     GenVix("bounds", 1, 25, 25), GenVix("surge", 1, 21, 21),
     GenVix("ease", 1, 21, 21),
     \* a history that begins on the 17th trading day
     GenVix("normal", 17, 40, 40)}
EvalSectors ==
    {NoSectors, [XLK |-> GenFrame("rise", 1, 30, 30)],
     [XLK |-> GenFrame("flat", 1, 20, 20), XLF |-> GenFrame("fall", 1, 20, 20),
      XLE |-> GenFrame("fall", 6, 20, 20)],
     \* technology unchanged, the two others rising
     [XLK |-> GenFrame("flat", 1, 20, 20), XLF |-> GenFrame("rise", 1, 30, 30),
      XLE |-> GenFrame("rise", 1, 30, 30)],
     \* histories that begin on the 11th trading day
     [XLK |-> GenFrame("fall", 11, 45, 45),
      XLF |-> GenFrame("rise", 11, 60, 60)]}

\* series long enough for every model, with and without a VIX history
LongFrames ==
    {GenFrame(pat, 1, MlMinRows, MlMinRows) :
        pat \in {"rise", "pop", "pullback", "rally"}}
    \* fifty days in a range of one percent
    \cup {GenFrame("band", 1, SupportWindow, SupportWindow)}
LongVix ==
    {NoneValue, <<>>, GenVix("normal", 1, 25, 25),
     GenVix("spike", 1, MlMinRows, MlMinRows),
     \* a VIX history that begins on the 22nd trading day
     GenVix("calm", 22, 45, 45)}

\* what the index of a frame a caller passes may be: dates, or the strings
\* of a frame read from a file
IndexKinds == {"DatetimeIndex", "object"}

\* data.index after slice_data_to_date or get_next_day_return has run on
\* data: an index that is not a DatetimeIndex is replaced on data itself
IndexAfterCall(kind) ==
    IF kind # "DatetimeIndex" THEN "DatetimeIndex" ELSE kind

AppIdle ==
    /\ results = NoResult
    /\ single = NoResult
    /\ date_range = <<>>
    /\ loop_i = 0
    /\ results_list = <<>>
    /\ notice = ""
    /\ request = NoResult
    /\ summary = NoResult

LibInit ==
    /\ pc = "lib"
    /\ call = NoCall
    /\ AppIdle
    /\ fit_seed \in 0..MaxSeed
    /\ \/ /\ full_data \in SmallFrames
          /\ master_index \in IndexKinds
          /\ vix_data \in SmallAux
          /\ sector_data = NoSectors
          /\ fit_seed = 0
       \/ /\ full_data \in EvalFrames
          /\ master_index = "DatetimeIndex"
          /\ vix_data \in EvalVix
          /\ sector_data \in EvalSectors
       \/ /\ full_data \in LongFrames
          /\ master_index = "DatetimeIndex"
          /\ vix_data \in LongVix
          /\ sector_data = NoSectors

\* the cutoffs a caller tries: every day around the small series, the days
\* that leave a window of one of the lengths of EvalLens, and the last day
Cutoffs == (0..(MaxDay + 1)) \cup
           {full_data[n].date : n \in (EvalLens \cup {Len(full_data)})
                                      \cap (1..Len(full_data))}

\* the history lengths at which a model starts to vote
ModelMinRows ==
    {RsiMinRows, SmaPeriod, FactorMinRows, SupportWindow, MacdMinRows,
     GarchMinRows, GarchMinRows + 1, RegimeMinRows, MlMinRows}

\* the cutoffs tried with run_ensemble: those above, and the days that leave
\* a window just below or just at one of the models' history lengths
EnsembleCutoffs ==
    Cutoffs \cup
    {full_data[n].date : n \in (ModelMinRows \cup {m - 1 : m \in ModelMinRows})
                                \cap (1..Len(full_data))}

AppUnchanged ==
    UNCHANGED <<full_data, vix_data, sector_data, pc, results, single,
                date_range, loop_i, results_list, notice, request, summary,
                fit_seed>>

\* slice_data_to_date(full_data, c)
CallSlice(c) ==
    /\ pc = "lib"
    /\ call = NoCall
    /\ call' = [op |-> "slice", target |-> c, window |-> full_data,
                out |-> slice_data_to_date(full_data, c)]
    /\ master_index' = IndexAfterCall(master_index)
    /\ AppUnchanged

\* the window a slice returned is sliced again, at the same or a later cutoff
CallReslice(c) ==
    /\ pc = "lib"
    /\ call.op \in {"slice", "reslice"}
    /\ c >= call.target
    /\ call' = [op |-> "reslice", target |-> c, window |-> call.out,
                out |-> slice_data_to_date(call.out, c)]
    /\ UNCHANGED master_index
    /\ AppUnchanged

\* get_next_day_return(full_data, c)
CallNextDayReturn(c) ==
    /\ pc = "lib"
    /\ call = NoCall
    /\ call' = [op |-> "next_day_return", target |-> c, window |-> full_data,
                out |-> get_next_day_return(full_data, c)]
    /\ master_index' = IndexAfterCall(master_index)
    /\ AppUnchanged

\* vix_data.reindex(window.index, method='ffill')['Close'] for the window cut at c
CallReindex(c) ==
    /\ pc = "lib"
    /\ call = NoCall
    /\ vix_data # NoneValue
    /\ LET window == slice_data_to_date(full_data, c)
       IN  call' = [op |-> "reindex", target |-> c, window |-> window,
                    out |-> reindex_ffill(vix_data, Index(window))]
    /\ master_index' = IndexAfterCall(master_index)
    /\ AppUnchanged

\* get_ml_vote on the window cut at c, with what it passed to the classifier
CallMlVote(c) ==
    /\ pc = "lib"
    /\ call = NoCall
    /\ LET window == slice_data_to_date(full_data, c)
       IN  call' = [op |-> "get_ml_vote", target |-> c, window |-> window,
                    out |-> [result |-> get_ml_vote(window, vix_data),
                             input |-> ClassifierInput(window, vix_data)]]
    /\ master_index' = IndexAfterCall(master_index)
    /\ AppUnchanged

\* run_ensemble on the window cut at c
CallEnsemble(c) ==
    /\ pc = "lib"
    /\ call = NoCall
    /\ LET window == slice_data_to_date(full_data, c)
       IN  call' = [op |-> "run_ensemble", target |-> c, window |-> window,
                    out |-> run_ensemble(window, vix_data, sector_data)]
    /\ master_index' = IndexAfterCall(master_index)
    /\ AppUnchanged

LibNext ==
    \/ \E c \in Cutoffs : CallSlice(c)
    \/ \E c \in Cutoffs : CallReslice(c)
    \/ \E c \in Cutoffs : CallNextDayReturn(c)
    \/ \E c \in Cutoffs : CallReindex(c)
    \/ \E c \in EnsembleCutoffs : CallMlVote(c)
    \/ \E c \in EnsembleCutoffs : CallEnsemble(c)

LibSpec == LibInit /\ [][LibNext]_vars

-----------------------------------------------------------------------------
(* app.py: the Streamlit page.  The data are fetched, the live forecast is *)
(* shown, and the user works the backtest tab: a single date, or a range   *)
(* of dates that the page walks one trading date at a time.                *)

\* full_data.index[100]: the first date the date pickers offer
MinHistory == 100
min_date(data) == data[MinHistory + 1].date
\* full_data.index[-2]
max_date(data) == data[Len(data) - 1].date

\* the master series: enough rows for the pickers to span MaxSpan trading
\* days and the weekend between them
AppRows == MinHistory + 2 + MaxSpan
AppPatterns == {"rise", "dip", "pop"}
AppFrames == {GenFrame(pat, 1, AppRows, AppRows) : pat \in AppPatterns}
\* fetch_vix_data: the history, a history that starts late, or an empty frame
AppVix ==
    {<<>>, GenVix("spike", 1, AppRows, AppRows),
     GenVix("calm", MinHistory - 15, AppRows, AppRows)}
\* fetch_sector_etfs: the sectors that could be fetched
AppSectors ==
    {NoSectors,
     [XLK |-> GenFrame("rise", 1, AppRows, AppRows),
      XLF |-> GenFrame("fall", 1, AppRows, AppRows)]}

Init ==
    /\ pc = "start"
    /\ call = NoCall
    /\ AppIdle
    /\ fit_seed \in 0..MaxSeed
    /\ full_data \in AppFrames
    /\ master_index = "DatetimeIndex"
    /\ vix_data \in AppVix
    /\ sector_data \in AppSectors

\* the calendar days a date picker offers
PickableDays == min_date(full_data)..max_date(full_data)

DataUnchanged ==
    UNCHANGED <<full_data, master_index, vix_data, sector_data, fit_seed>>

\* faulty variant: the loop walks every date of the range
AllDates(dates) == dates

\* date_range[:-1]
TestDates(dates) == SubSeq(dates, 1, Len(dates) - 1)

\* actual_return > 0
IsUp(ret) == ret.num * ret.den > 0

\* faulty variant: a tie of the votes counts as a bullish prediction
PredictedBullishOrTie(net_vote) == net_vote >= 0

\* predicted_bullish = result['net_vote'] > 0
PredictedBullish(net_vote) == net_vote > 0

\* tab 1: the forecast on the data up to the latest trading date
LiveForecast ==
    /\ pc = "start"
    /\ LET latest_date == get_latest_trading_date(full_data)
           current_data == slice_data_to_date(full_data, latest_date)
       IN  results' = run_ensemble(current_data, vix_data, sector_data)
    /\ pc' = "ready"
    /\ DataUnchanged
    /\ UNCHANGED <<call, single, date_range, loop_i, results_list, notice,
                   request, summary>>

\* tab 2, single date mode: the prediction for the selected date and the
\* reality check against the next trading day
SingleDate(selected_date) ==
    /\ pc = "ready"
    /\ \E historical_data \in {slice_data_to_date(full_data, selected_date)} :
       \E historical_results \in
              {run_ensemble(historical_data, vix_data, sector_data)} :
       \E ret \in {get_next_day_return(full_data, selected_date)} :
           single' =
               [date |-> selected_date,
                days |-> Len(historical_data),
                net_vote |-> historical_results.net_vote,
                recommendation |-> historical_results.recommendation,
                breakdown |-> historical_results.breakdown,
                actual |-> ret,
                correct |-> IF ret.ok
                            THEN PredictedBullish(historical_results.net_vote)
                                     = IsUp(ret)
                            ELSE FALSE]
    /\ pc' = "shown"
    /\ DataUnchanged
    /\ UNCHANGED <<call, results, date_range, loop_i, results_list, notice,
                   request, summary>>

\* tab 2, range mode: the start date is after the end date
RangeRejected(start_date, end_date) ==
    /\ pc = "ready"
    /\ start_date > end_date
    /\ request' = [start_date |-> start_date, end_date |-> end_date]
    /\ notice' = "Start date must be before end date!"
    /\ pc' = "shown"
    /\ DataUnchanged
    /\ UNCHANGED <<call, results, single, date_range, loop_i, results_list,
                   summary>>

\* faulty variant: a range of a single trading date is let through
NoDates(dates) == Len(dates) < 1

\* len(date_range) < 2
TooFewDates(dates) == Len(dates) < 2

\* tab 2, range mode: Run Backtest is pressed
RangeSubmit(start_date, end_date) ==
    /\ pc = "ready"
    /\ start_date <= end_date
    /\ request' = [start_date |-> start_date, end_date |-> end_date]
    /\ \E dates \in {SelectSeq(Index(full_data),
                               LAMBDA d : d >= start_date /\ d <= end_date)} :
           /\ date_range' = dates
           /\ IF TooFewDates(dates)
              THEN /\ notice' = "Not enough trading days in selected range"
                   /\ pc' = "shown"
                   /\ UNCHANGED <<loop_i, results_list>>
              ELSE /\ results_list' = <<>>
                   /\ loop_i' = 1
                   /\ pc' = "loop"
                   /\ UNCHANGED notice
    /\ DataUnchanged
    /\ UNCHANGED <<call, results, single, summary>>

\* the record appended for test_date
BacktestRecord(test_date, result, ret) ==
    [date |-> test_date,
     net_vote |-> result.net_vote,
     prediction |-> IF PredictedBullish(result.net_vote)
                    THEN "Bullish" ELSE "Bearish",
     actual_return |-> [num |-> ret.num, den |-> ret.den],
     actual_direction |-> IF IsUp(ret) THEN "Up" ELSE "Down",
     correct |-> PredictedBullish(result.net_vote) = IsUp(ret),
     breakdown |-> result.breakdown]

\* one pass of the loop over date_range[:-1]
RangeStep ==
    /\ pc = "loop"
    /\ loop_i <= Len(TestDates(date_range))
    /\ \E test_date \in {TestDates(date_range)[loop_i]} :
       \E test_data \in {slice_data_to_date(full_data, test_date)} :
       \E result \in {run_ensemble(test_data, vix_data, sector_data)} :
       \E ret \in {get_next_day_return(full_data, test_date)} :
           /\ call' = [op |-> "range_step", target |-> test_date,
                       window |-> test_data,
                       out |-> [net_vote |-> result.net_vote, ret |-> ret]]
           /\ results_list' =
                  IF ret.ok
                  THEN Append(results_list,
                              BacktestRecord(test_date, result, ret))
                  ELSE results_list
    /\ loop_i' = loop_i + 1
    /\ DataUnchanged
    /\ UNCHANGED <<pc, results, single, date_range, notice, request, summary>>

\* the models whose accuracy the page computes
model_names ==
    <<"RSI Momentum", "Mean Reversion", "GARCH Volatility",
      "ML Random Forest", "Factor Model", "Technical Support">>

\* the pairs (record, breakdown entry) the inner loops count for
\* model_name: the entry carries that name and a non-zero vote
ModelVotes(list, model_name) ==
    {p \in {<<k, j>> : k \in 1..Len(list), j \in 1..10} :
        /\ list[p[1]].breakdown[p[2]].model = model_name
        /\ list[p[1]].breakdown[p[2]].vote # 0}

\* model_correct and model_total of model_name
ModelStat(list, model_name) ==
    LET cast == ModelVotes(list, model_name)
        right == {p \in cast :
                     (list[p[1]].breakdown[p[2]].vote > 0)
                         = IsUp(list[p[1]].actual_return)}
    IN  [Model |-> model_name,
         Accuracy |-> [num |-> 100 * Cardinality(right),
                       den |-> Cardinality(cast)],
         Predictions |-> Cardinality(cast),
         Correct |-> Cardinality(right)]

\* model_stats: one row per name of model_names with model_total > 0
ModelStats(list) ==
    SelectSeq([k \in 1..Len(model_names) |-> ModelStat(list, model_names[k])],
              LAMBDA stat : stat.Predictions > 0)

\* faulty variant: the running count is divided by the number of all records
CumulativeAccuracyOverAll(list) ==
    [k \in 1..Len(list) |->
        [num |-> 100 * Cardinality({j \in 1..k : list[j].correct}),
         den |-> Len(list)]]

\* results_df['cumulative_accuracy']: correct.cumsum() / (index + 1) * 100
CumulativeAccuracy(list) ==
    [k \in 1..Len(list) |->
        [num |-> 100 * Cardinality({j \in 1..k : list[j].correct}),
         den |-> k]]

\* the performance summary of a backtest with results; px.bar on a frame
\* without rows has no column 'Model' to plot and raises
Summary(list) ==
    LET correct_trades == Cardinality({k \in 1..Len(list) : list[k].correct})
        model_stats == ModelStats(list)
    IN  [accuracy |-> [num |-> 100 * correct_trades, den |-> Len(list)],
         total_trades |-> Len(list),
         correct_trades |-> correct_trades,
         incorrect_trades |-> Len(list) - correct_trades,
         cumulative_accuracy |-> CumulativeAccuracy(list),
         model_stats |-> model_stats,
         chart_raised |-> model_stats = <<>>]

\* the loop is over: the summary is shown, or the warning when no date
\* could be scored
RangeFinish ==
    /\ pc = "loop"
    /\ loop_i > Len(TestDates(date_range))
    /\ pc' = "shown"
    /\ notice' = IF Len(results_list) = 0 THEN "No valid backtest results"
                 ELSE ""
    /\ summary' = IF Len(results_list) = 0 THEN NoResult
                  ELSE Summary(results_list)
    /\ DataUnchanged
    /\ UNCHANGED <<call, results, single, date_range, loop_i, results_list,
                   request>>

\* the user touches a widget: the page runs again from the top, on the
\* cached data, and shows what the new choice gives
Rerun ==
    /\ pc = "shown"
    /\ pc' = "ready"
    /\ call' = NoCall
    /\ single' = NoResult
    /\ date_range' = <<>>
    /\ loop_i' = 0
    /\ results_list' = <<>>
    /\ notice' = ""
    /\ request' = NoResult
    /\ summary' = NoResult
    /\ DataUnchanged
    /\ UNCHANGED results

Next ==
    \/ LiveForecast
    \/ \E d \in PickableDays : SingleDate(d)
    \/ \E a, b \in PickableDays : RangeRejected(a, b)
    \/ \E a, b \in PickableDays : RangeSubmit(a, b)
    \/ RangeStep
    \/ RangeFinish
    \/ Rerun

Spec == Init /\ [][Next]_vars

-----------------------------------------------------------------------------
(* Properties of the library operations, checked under LibSpec *)

\* the rows of data dated at or before t, and those dated after t
RowsUpTo(data, t) == {i \in 1..Len(data) : data[i].date <= t}
RowsAfter(data, t) == {i \in 1..Len(data) : data[i].date > t}
\* the row of the non-empty set R of rows of data with the latest date, and
\* the one with the earliest
LatestRow(data, R) == CHOOSE i \in R : \A j \in R : data[j].date <= data[i].date
EarliestRow(data, R) == CHOOSE i \in R : \A j \in R : data[j].date >= data[i].date
\* the place of row r in data
PlaceIn(data, r) == CHOOSE i \in 1..Len(data) : data[i] = r

SliceCalled == call.op \in {"slice", "reslice"}

\* C5: a slice holds exactly the rows dated at or before the cutoff: none
\* dated after it, none dated at or before it left out, none twice, each as
\* it was and in the order of the series.
C5_SliceExact ==
    SliceCalled =>
        /\ \A i \in 1..Len(call.out) : call.out[i].date <= call.target
        /\ \A j \in RowsUpTo(call.window, call.target) :
               \E i \in 1..Len(call.out) : call.out[i] = call.window[j]
        /\ Len(call.out) = Cardinality(RowsUpTo(call.window, call.target))
        /\ \A i \in 1..(Len(call.out) - 1) :
               PlaceIn(call.window, call.out[i])
                   < PlaceIn(call.window, call.out[i + 1])

\* a cutoff that is no date of the series, with rows on either side of it
C5_Witness ==
    /\ call.op = "slice"
    /\ call.target \notin IndexSet(call.window)
    /\ RowsUpTo(call.window, call.target) # {}
    /\ RowsAfter(call.window, call.target) # {}
    /\ Len(call.out) = Cardinality(RowsUpTo(call.window, call.target))

\* C6: slicing a window that a slice returned, at the same or a later
\* cutoff, returns that window unchanged.
C6_SliceIdempotent ==
    call.op = "reslice" => call.out = call.window

\* a window is sliced again at a cutoff that would admit a row of the master
\* series the first slice had removed
C6_Witness ==
    /\ call.op = "reslice"
    /\ Len(call.window) > 0
    /\ \E j \in RowsUpTo(full_data, call.target) :
           \A i \in 1..Len(call.window) : call.window[i] # full_data[j]
    /\ call.out = call.window

\* C7: the value aligned to a date of the window is the close of the latest
\* auxiliary row dated at or before it, and missing when there is none; no
\* auxiliary row dated after it is used.
C7_AlignForwardFill ==
    call.op = "reindex" =>
        /\ Len(call.out) = Len(call.window)
        /\ \A k \in 1..Len(call.window) :
               LET known == RowsUpTo(vix_data, call.window[k].date)
               IN  IF known = {}
                   THEN call.out[k] = NaN
                   ELSE \E j \in known :
                            /\ call.out[k] = vix_data[j].Close
                            /\ \A i \in known :
                                   vix_data[i].date <= vix_data[j].date

\* a date of the window without an auxiliary row of its own takes the value
\* of an earlier row although a later row exists
C7_Witness ==
    /\ call.op = "reindex"
    /\ \E k \in 1..Len(call.window) :
           /\ call.window[k].date \notin IndexSet(vix_data)
           /\ RowsAfter(vix_data, call.window[k].date) # {}
           /\ RowsUpTo(vix_data, call.window[k].date) # {}
           /\ call.out[k] # NaN

\* C8: the next-day return is the percentage change in Close from the latest
\* trading day at or before the date to the first trading day after it, and
\* is given with that day; it is (None, None) exactly when one of the two
\* days does not exist.
C8_NextDayReturn ==
    (call.op = "next_day_return" /\ HasCol(call.window, "Close")) =>
        LET before == RowsUpTo(call.window, call.target)
            after == RowsAfter(call.window, call.target)
        IN  /\ (call.out = NoReturn) <=> (before = {} \/ after = {})
            /\ ~call.out.raised
            /\ (before # {} /\ after # {}) =>
                   LET t0 == call.window[LatestRow(call.window, before)]
                       t1 == call.window[EarliestRow(call.window, after)]
                   IN  /\ call.out.ok
                       /\ call.out.next_date = t1.date
                       /\ call.out.num = 100 * (t1.Close - t0.Close)
                       /\ call.out.den = t0.Close

\* the date is no trading day, and the return from the day before it to the
\* day after it is not zero
C8_Witness ==
    /\ call.op = "next_day_return"
    /\ call.target \notin IndexSet(call.window)
    /\ call.out.ok
    /\ call.out.num # 0
    /\ call.out.next_date > call.target

-----------------------------------------------------------------------------
(* Properties of run_ensemble, checked under LibSpec *)

EnsembleReturned == call.op = "run_ensemble" /\ ~call.out.raised

\* the ten votes of a result
Votes(out) == [k \in 1..Len(out.breakdown) |-> out.breakdown[k].vote]

\* the auxiliary data as they were on day d
SectorsUpTo(sectors, d) ==
    [sym \in DOMAIN sectors |-> slice_data_to_date(sectors[sym], d)]
VixUpTo(vix, d) ==
    IF vix = NoneValue THEN NoneValue ELSE slice_data_to_date(vix, d)

\* C1: the ten votes for day d are those the same call returns on data that
\* agree on every row dated at or before d and hold no later row: rows after
\* d, and how many there are, change no vote.
C1_FutureRowsIgnored ==
    EnsembleReturned =>
        LET past == run_ensemble(call.window, VixUpTo(vix_data, call.target),
                                 SectorsUpTo(sector_data, call.target))
        IN  /\ ~past.raised
            /\ Votes(call.out) = Votes(past)

\* C2: net_vote is the sum of the votes of the ten breakdown entries.
C2_NetVoteIsSum ==
    EnsembleReturned =>
        LET b == call.out.breakdown
        IN  /\ Len(b) = 10
            /\ call.out.net_vote =
                   b[1].vote + b[2].vote + b[3].vote + b[4].vote + b[5].vote
                   + b[6].vote + b[7].vote + b[8].vote + b[9].vote + b[10].vote

\* votes of both signs, one of them of a weight above one
C2_Witness ==
    /\ EnsembleReturned
    /\ \E i, j, k \in 1..10 :
           /\ call.out.breakdown[i].vote > 0
           /\ call.out.breakdown[j].vote < 0
           /\ Abs(call.out.breakdown[k].vote) > 1
    /\ call.out.net_vote # 0

\* C3: active_models is the number of breakdown entries with a vote other
\* than zero, so it lies between 0 and 10.
C3_ActiveModelsCount ==
    EnsembleReturned =>
        LET b == call.out.breakdown
            silent == {k \in 1..Len(b) : b[k].vote = 0}
        IN  /\ call.out.active_models = Len(b) - Cardinality(silent)
            /\ call.out.active_models \in 0..10

\* a result with votes above zero, below zero and at zero
C3_Witness ==
    /\ EnsembleReturned
    /\ \E i, j, k \in 1..10 :
           /\ call.out.breakdown[i].vote > 0
           /\ call.out.breakdown[j].vote < 0
           /\ call.out.breakdown[k].vote = 0
    /\ call.out.active_models >= 2

\* C4: the recommendation is decided by net_vote alone, in five bands that
\* cover every integer once: Strong Buy from 6 up, Buy from 3 to 5,
\* Neutral/Hold from -2 to 2, Sell from -5 to -3, Strong Sell from -6 down.
C4_RecommendationBands ==
    EnsembleReturned =>
        LET n == call.out.net_vote
            rec == call.out.recommendation
        IN  /\ (rec = "STRONG BUY") <=> (n >= 6)
            /\ (rec = "BUY") <=> (3 <= n /\ n <= 5)
            /\ (rec = "NEUTRAL / HOLD") <=> (-2 <= n /\ n <= 2)
            /\ (rec = "SELL") <=> (-5 <= n /\ n <= -3)
            /\ (rec = "STRONG SELL") <=> (n <= -6)

\* a net vote of exactly 6 is a Strong Buy
C4_Witness ==
    /\ EnsembleReturned
    /\ call.out.net_vote = 6
    /\ call.out.recommendation = "STRONG BUY"

\* C9: run_ensemble never raises: it returns ten breakdown entries and a
\* net_vote whatever the models meet in the data.
C9_NeverRaises ==
    call.op = "run_ensemble" =>
        /\ ~call.out.raised
        /\ Len(call.out.breakdown) = 10

-----------------------------------------------------------------------------
(* Properties of the page, checked under Spec *)

\* the range backtest is running, or has run to its end
RangeRunning == pc = "loop"
RangeDone == pc = "shown" /\ Len(date_range) >= 2

\* C10: a range backtest over n >= 2 trading dates leaves n - 1 records, one
\* for each date of the range but the last, in ascending order; the record
\* for date d is made from the window cut at d and scored against the first
\* trading day after d, which is no row of that window.
C10_RangeBacktest ==
    (RangeRunning \/ RangeDone) =>
        /\ Len(date_range) >= 2
        /\ loop_i <= Len(date_range)
        /\ Len(results_list) = loop_i - 1
        /\ RangeDone => Len(results_list) = Len(date_range) - 1
        /\ \A k \in 1..Len(results_list) :
               results_list[k].date = date_range[k]
        /\ \A k \in 1..(Len(results_list) - 1) :
               results_list[k].date < results_list[k + 1].date
        /\ call.op = "range_step" =>
               LET d == call.target
                   window == call.window
                   t1 == full_data[EarliestRow(full_data, RowsAfter(full_data, d))]
                   rec == results_list[Len(results_list)]
               IN  /\ d = date_range[loop_i - 1]
                   /\ Len(window) = Cardinality(RowsUpTo(full_data, d))
                   /\ \A i \in 1..Len(window) : window[i] = full_data[i]
                   /\ window[Len(window)].date = d
                   /\ t1.date > d
                   /\ t1.date \notin IndexSet(window)
                   /\ call.out.ret.ok
                   /\ call.out.ret.next_date = t1.date
                   /\ rec.date = d
                   /\ rec.net_vote = call.out.net_vote
                   /\ rec.actual_return.num
                          = 100 * (t1.Close - window[Len(window)].Close)
                   /\ rec.actual_return.den = window[Len(window)].Close

\* a finished backtest over a range of three or more trading dates with a
\* weekend in it
C10_Witness ==
    /\ RangeDone
    /\ Len(date_range) >= 3
    /\ Len(results_list) = Len(date_range) - 1
    /\ \E k \in 1..(Len(date_range) - 1) :
           date_range[k + 1] > date_range[k] + 1

\* the sign test of a return held as the fraction num/den
ReturnPositive(r) == (r.num > 0 /\ r.den > 0) \/ (r.num < 0 /\ r.den < 0)

\* C11: in every backtest record, of the range loop and of the single date
\* check alike, correct is true exactly when (net_vote > 0) equals
\* (actual_return > 0); a net vote of 0 is a non-bullish prediction, so it
\* is counted correct exactly when the realized return is not positive.
C11_CorrectFlag ==
    /\ \A k \in 1..Len(results_list) :
           LET rec == results_list[k]
           IN  /\ rec.correct
                      <=> ((rec.net_vote > 0)
                               <=> ReturnPositive(rec.actual_return))
               /\ rec.net_vote = 0 =>
                      (rec.correct <=> ~ReturnPositive(rec.actual_return))
    /\ (single # NoResult /\ single.actual.ok) =>
           /\ single.correct
                  <=> ((single.net_vote > 0)
                           <=> ReturnPositive(single.actual))
           /\ single.net_vote = 0 =>
                  (single.correct <=> ~ReturnPositive(single.actual))

\* a range backtest holds a record with a tied vote and a falling or flat
\* next day, counted correct, and a record with a bullish vote counted wrong
C11_Witness ==
    /\ \E k \in 1..Len(results_list) :
           /\ results_list[k].net_vote = 0
           /\ ~ReturnPositive(results_list[k].actual_return)
           /\ results_list[k].correct
    /\ \E k \in 1..Len(results_list) :
           /\ results_list[k].net_vote > 0
           /\ ~results_list[k].correct

\* the records of the backtest in which the model of entry j voted
VotedRecords(j) ==
    {k \in 1..Len(results_list) : results_list[k].breakdown[j].vote # 0}

\* C12: for each of the ten models of the breakdown the summary of a
\* backtest holds a per-model accuracy whose denominator is the number of
\* records in which that model's vote is non-zero, at most the number of
\* records, and whose numerator counts those of them whose vote has the
\* sign of the realized return.
C12_PerModelAccuracy ==
    (RangeDone /\ summary # NoResult) =>
        \A j \in 1..Len(BreakdownNames) :
            VotedRecords(j) # {} =>
                \E s \in 1..Len(summary.model_stats) :
                    LET stat == summary.model_stats[s]
                    IN  /\ stat.Model = BreakdownNames[j]
                        /\ stat.Predictions = Cardinality(VotedRecords(j))
                        /\ stat.Predictions <= summary.total_trades
                        /\ stat.Correct =
                               Cardinality(
                                   {k \in VotedRecords(j) :
                                       (results_list[k].breakdown[j].vote > 0)
                                           = ReturnPositive(
                                                 results_list[k].actual_return)})

\* the trading dates of the master series from the requested start date to
\* the requested end date
RequestedDates ==
    {d \in IndexSet(full_data) :
        d >= request.start_date /\ d <= request.end_date}

\* C13: a backtest request whose start date is after its end date, or whose
\* range holds fewer than two trading dates, is answered with a message and
\* nothing else: no ensemble evaluation is run for it and no result list or
\* statistics are produced.
C13_RangeRejected ==
    (/\ request # NoResult
     /\ \/ request.start_date > request.end_date
        \/ Cardinality(RequestedDates) < 2) =>
        /\ pc = "shown"
        /\ notice = IF request.start_date > request.end_date
                    THEN "Start date must be before end date!"
                    ELSE "Not enough trading days in selected range"
        /\ call = NoCall
        /\ loop_i = 0
        /\ results_list = <<>>
        /\ summary = NoResult

\* a request from a trading date to a later day with no other trading date
\* in between has been turned down
C13_Witness ==
    /\ request # NoResult
    /\ request.start_date < request.end_date
    /\ Cardinality(RequestedDates) = 1
    /\ pc = "shown"
    /\ notice = "Not enough trading days in selected range"

\* C14: the breakdown of every result has exactly ten entries, in the order
\* RSI Momentum, Mean Reversion, GARCH Volatility, ML, Factor Model,
\* Technical Support, MACD + Bollinger, VIX Regime, Market Regime, Sector
\* Rotation, whatever the votes are; the net vote is taken over all ten.
C14_BreakdownOrder ==
    EnsembleReturned =>
        LET b == call.out.breakdown
        IN  /\ Len(b) = 10
            /\ [k \in 1..10 |-> b[k].model] = BreakdownNames
            /\ [k \in 1..10 |-> b[k].weight] = BreakdownWeights
            /\ call.out.net_vote = SumRange(Votes(call.out), 1, 10)

\* a result in which a model that abstained stands before one that voted,
\* and a weaker vote before a stronger one
C14_Witness ==
    /\ EnsembleReturned
    /\ \E i, j \in 1..10 :
           /\ i < j
           /\ call.out.breakdown[i].vote = 0
           /\ call.out.breakdown[j].vote # 0
    /\ \E i, j \in 1..10 :
           /\ i < j
           /\ call.out.breakdown[i].vote # 0
           /\ Abs(call.out.breakdown[i].vote) < Abs(call.out.breakdown[j].vote)

\* C15: when the volatility series is None or empty, the VIX Regime entry
\* of the result has vote 0 and the signal 'No VIX Data'.
C15_NoVixData ==
    (EnsembleReturned /\ (vix_data = NoneValue \/ vix_data = <<>>)) =>
        /\ call.out.breakdown[8].model = "VIX Regime"
        /\ call.out.breakdown[8].vote = 0
        /\ call.out.breakdown[8].signal = "No VIX Data"

\* C16: with the window and the sector data held fixed, the votes of the
\* nine models other than VIX Regime are the same whether the volatility
\* series is present, empty or None.
C16_VixOmissionLocal ==
    EnsembleReturned =>
        \A absent \in {NoneValue, <<>>} :
            LET without == run_ensemble(call.window, absent, sector_data)
            IN  /\ ~without.raised
                /\ \A k \in (1..10) \ {8} :
                       without.breakdown[k].vote = call.out.breakdown[k].vote

\* the signal of entry k of the result of the last run_ensemble call
SignalOf(k) == call.out.breakdown[k].signal

\* C17: on a window of fewer than 15 rows RSI, Mean Reversion, GARCH, ML,
\* Factor, Technical Support and Market Regime each return vote 0 with the
\* signal 'Insufficient Data', never 'Neutral'.
C17_ShortWindow ==
    (call.op = "run_ensemble" /\ Len(call.window) < 15) =>
        /\ ~call.out.raised
        /\ \A k \in {1, 2, 3, 4, 5, 6, 9} :
               /\ call.out.breakdown[k].model = BreakdownNames[k]
               /\ call.out.breakdown[k].vote = 0
               /\ SignalOf(k) = "Insufficient Data"

\* run_ensemble has answered on a window of 14 rows
C17_Witness ==
    /\ EnsembleReturned
    /\ Len(call.window) = 14
    /\ \A k \in {1, 2, 3, 4, 5, 6, 9} : SignalOf(k) = "Insufficient Data"

\* C18: RSI (15 rows), Mean Reversion (20), Factor (21), Technical Support
\* (50), MACD + Bollinger (50) and Market Regime (200) each return
\* 'Insufficient Data' exactly when the window has fewer rows than that
\* minimum; with exactly the minimum the vote rule is evaluated.
C18_MinimumHistory ==
    EnsembleReturned =>
        LET n == Len(call.window)
        IN  /\ SignalOf(1) = "Insufficient Data" <=> n < 15
            /\ SignalOf(2) = "Insufficient Data" <=> n < 20
            /\ SignalOf(5) = "Insufficient Data" <=> n < 21
            /\ SignalOf(6) = "Insufficient Data" <=> n < 50
            /\ SignalOf(7) = "Insufficient Data" <=> n < 50
            /\ SignalOf(9) = "Insufficient Data" <=> n < 200
            /\ \A k \in {1, 2, 5, 6, 7, 9} :
                   SignalOf(k) = "Insufficient Data" =>
                       call.out.breakdown[k].vote = 0

\* a window of exactly 200 rows: every one of the six models has evaluated
\* its rule, and one of them has voted
C18_Witness ==
    /\ EnsembleReturned
    /\ Len(call.window) = 200
    /\ \A k \in {1, 2, 5, 6, 7, 9} : SignalOf(k) # "Insufficient Data"
    /\ \E k \in {1, 2, 5, 6, 7, 9} : call.out.breakdown[k].vote # 0

\* C19: on every window of at least 100 rows, exactly 100 included, GARCH
\* never returns 'Insufficient Data': it votes +3 or -3, or reports that
\* the fit failed.
C19_GarchHistory ==
    (EnsembleReturned /\ Len(call.window) >= 100) =>
        /\ call.out.breakdown[3].model = "GARCH Volatility"
        /\ SignalOf(3) # "Insufficient Data"
        /\ \/ call.out.breakdown[3].vote \in {3, -3}
           \/ /\ call.out.breakdown[3].vote = 0
              /\ SignalOf(3) = "Model Failed"

\* the sums of the rises and of the falls of the close over the last 14
\* days of the window of the last call
RsiUps ==
    LET w == call.window
        n == Len(w)
    IN  SumRange([i \in (n - 13)..n |-> Max2(w[i].Close - w[i - 1].Close, 0)],
                 n - 13, n)
RsiDowns ==
    LET w == call.window
        n == Len(w)
    IN  SumRange([i \in (n - 13)..n |-> Max2(w[i - 1].Close - w[i].Close, 0)],
                 n - 13, n)

\* C20: on every window of at least 15 rows the RSI vote is +1 exactly when
\* the 14-period RSI, 100 * ups / (ups + downs), is below 30, -1 exactly
\* when it is above 70, and 0 otherwise, an RSI of exactly 30 or 70 and an
\* undefined RSI (no rise and no fall) included; no other vote occurs.
C20_RsiVoteRule ==
    (EnsembleReturned /\ Len(call.window) >= 15) =>
        LET vote == call.out.breakdown[1].vote
            undefined == RsiUps = 0 /\ RsiDowns = 0
            below30 == ~undefined /\ 100 * RsiUps < 30 * (RsiUps + RsiDowns)
            above70 == ~undefined /\ 100 * RsiUps > 70 * (RsiUps + RsiDowns)
        IN  /\ call.out.breakdown[1].model = "RSI Momentum"
            /\ vote \in {-1, 0, 1}
            /\ vote = 1 <=> below30
            /\ vote = -1 <=> above70

\* the RSI of the window is exactly 70 and the model has not voted
C20_Witness ==
    /\ EnsembleReturned
    /\ Len(call.window) >= 15
    /\ RsiUps > 0
    /\ 100 * RsiUps = 70 * (RsiUps + RsiDowns)
    /\ call.out.breakdown[1].vote = 0

\* get_ml_vote has trained its classifier on the window of the last call
MlFitted == call.op = "get_ml_vote" /\ call.out.input.fitted

\* C21: the ML model predicts the label of the cutoff day: the row handed
\* to the classifier for prediction is the last row of the window, every
\* training row is an earlier day, and every training label reads only
\* closes dated at or before the cutoff.
C21_PredictsCutoffDay ==
    MlFitted =>
        LET last_date == call.window[Len(call.window)].date
        IN  /\ call.out.input.pred_date = last_date
            /\ \A d \in call.out.input.train_dates : d < last_date
            /\ \A d \in call.out.input.label_dates : d <= call.target

\* the labels with which a model states no opinion or a failure
NoOpinionLabels ==
    {"Insufficient Data", "Model Failed", "Error", "No Data", "No VIX Data",
     "No Sector Data", "VIX Data Missing", "Data Issue", "Low Confidence",
     "Neutral"}

\* the number of window rows below which the model of entry k finds the
\* history too short; GARCH counts the returns, one fewer than the rows
HistoryNeeded ==
    <<15, 20, 101, 250, 21, 50, 50, 20, 200, 15>>

\* C22: a breakdown entry whose signal is a no-opinion or failure label has
\* vote 0, and 'Insufficient Data' is produced only by a check that the
\* history is too short, never by a NaN or exception path.
C22_NoOpinionLabels ==
    EnsembleReturned =>
        \A k \in 1..10 :
            /\ SignalOf(k) \in NoOpinionLabels =>
                   call.out.breakdown[k].vote = 0
            /\ SignalOf(k) = "Insufficient Data" =>
                   Len(call.window) < HistoryNeeded[k]

\* the largest vote each of the ten models may cast
VoteCaps == <<1, 1, 3, 1, 1, 3, 1, 3, 2, 2>>

\* C23: every vote is an integer no larger in magnitude than the weight
\* declared for its model in the breakdown (1 for RSI, Mean Reversion, ML
\* and MACD + Bollinger, 2 for Market Regime and Sector Rotation, 3 for
\* GARCH, Technical Support and VIX Regime), and the Factor Model votes 0
\* or +1, never below 0.
C23_VoteWithinWeight ==
    EnsembleReturned =>
        /\ \A k \in 1..10 :
               /\ call.out.breakdown[k].vote \in Int
               /\ Abs(call.out.breakdown[k].vote) <= VoteCaps[k]
               /\ call.out.breakdown[k].weight = VoteCaps[k]
        /\ call.out.breakdown[5].model = "Factor Model"
        /\ call.out.breakdown[5].vote \in {0, 1}

\* a falling, volatile window on which the Factor Model abstains while a
\* model of weight 3 votes with its full weight
C23_Witness ==
    /\ EnsembleReturned
    /\ Len(call.window) >= 21
    /\ call.window[Len(call.window)].Close
           < call.window[Len(call.window) - 20].Close
    /\ call.out.breakdown[5].vote = 0
    /\ \E k \in {3, 6, 8} : Abs(call.out.breakdown[k].vote) = 3

\* the VIX level of the last day of the window is undefined: the VIX
\* history is long enough but holds no row dated at or before that day
VixLevelUndefined ==
    /\ vix_data # NoneValue
    /\ Len(vix_data) >= 20
    /\ Len(call.window) >= 20
    /\ \A i \in 1..Len(vix_data) :
           vix_data[i].date > call.window[Len(call.window)].date

\* C24: when an intermediate quantity of a model's computation is NaN or
\* undefined, the history being sufficient and no exception raised, the
\* model returns vote 0 with the signal 'Neutral': so for an undefined RSI
\* (no rise and no fall in 14 days), for an undefined current VIX level
\* and for a GARCH fit that returns a NaN volatility.
C24_NaNIsNeutral ==
    EnsembleReturned =>
        /\ (Len(call.window) >= 15 /\ RsiUps = 0 /\ RsiDowns = 0) =>
               /\ call.out.breakdown[1].vote = 0
               /\ SignalOf(1) = "Neutral"
        /\ VixLevelUndefined =>
               /\ call.out.breakdown[8].vote = 0
               /\ SignalOf(8) = "Neutral"
        /\ (Len(call.window) >= 101 /\ arch_fit(call.window) = "nan") =>
               /\ call.out.breakdown[3].vote = 0
               /\ SignalOf(3) = "Neutral"

\* the number of correct records among the first k of the backtest
CorrectAmong(k) == Cardinality({j \in 1..k : results_list[j].correct})

\* C25: after a backtest the overall accuracy is the number of correct
\* records over the number of records, and the k-th value of the cumulative
\* accuracy is the number of correct records among the first k, in date
\* order, over k; its last value is the overall accuracy.
C25_Accuracy ==
    (RangeDone /\ summary # NoResult) =>
        LET total == Len(results_list)
            cum == summary.cumulative_accuracy
        IN  /\ summary.total_trades = total
            /\ summary.correct_trades = CorrectAmong(total)
            /\ summary.incorrect_trades = total - CorrectAmong(total)
            /\ summary.accuracy.den > 0
            /\ summary.accuracy.num * total
                   = 100 * CorrectAmong(total) * summary.accuracy.den
            /\ Len(cum) = total
            /\ \A k \in 1..total :
                   /\ cum[k].den > 0
                   /\ cum[k].num * k = 100 * CorrectAmong(k) * cum[k].den
            /\ cum[total].num * summary.accuracy.den
                   = summary.accuracy.num * cum[total].den
            /\ \A k \in 1..(total - 1) :
                   results_list[k].date < results_list[k + 1].date

\* a backtest of three or more records, right on its first date and wrong
\* on a later one
C25_Witness ==
    /\ RangeDone
    /\ summary # NoResult
    /\ Len(results_list) >= 3
    /\ results_list[1].correct
    /\ \E k \in 2..Len(results_list) : ~results_list[k].correct

\* C26: no operation of an evaluation mutates its inputs: slice_data_to_date
\* leaves the rows and the index of the master series as they are, and no
\* model nor run_ensemble changes the window or the auxiliary series, so
\* the master series is the same before and after every call.
C26_InputsUnchanged ==
    [][/\ full_data' = full_data
       /\ master_index' = master_index
       /\ vix_data' = vix_data
       /\ sector_data' = sector_data]_vars

\* the highest High and the lowest Low of the last 50 rows of the window of
\* the last call, and its last close
High50 ==
    CHOOSE h \in {call.window[i].High :
                     i \in (Len(call.window) - 49)..Len(call.window)} :
        \A i \in (Len(call.window) - 49)..Len(call.window) :
            call.window[i].High <= h
Low50 ==
    CHOOSE l \in {call.window[i].Low :
                     i \in (Len(call.window) - 49)..Len(call.window)} :
        \A i \in (Len(call.window) - 49)..Len(call.window) :
            call.window[i].Low >= l
LastClose == call.window[Len(call.window)].Close
NearLow == 100 * Abs(LastClose - Low50) <= Low50
NearHigh == 100 * Abs(LastClose - High50) <= High50

\* C27: with at least 50 rows, Technical Support votes +3 when the close is
\* within 1% of the 50-day low, -3 when it is within 1% of the 50-day high
\* and not of the low, and 0 otherwise; when both hold the vote is +3.
C27_SupportVote ==
    (EnsembleReturned /\ Len(call.window) >= 50) =>
        /\ call.out.breakdown[6].model = "Technical Support"
        /\ call.out.breakdown[6].vote =
               IF NearLow THEN 3 ELSE IF NearHigh THEN -3 ELSE 0

\* the close is within 1% of both the 50-day low and the 50-day high, and
\* Technical Support has voted
C27_Witness ==
    /\ EnsembleReturned
    /\ Len(call.window) >= 50
    /\ NearLow
    /\ NearHigh
    /\ call.out.breakdown[6].vote = 3

\* the VIX level known on the day of row i of the window of the last call:
\* the close of the latest VIX row dated at or before that day
VixOn(i) ==
    LET known == {j \in 1..Len(vix_data) :
                     vix_data[j].date <= call.window[i].date}
    IN  IF known = {} THEN NaN
        ELSE vix_data[CHOOSE j \in known : \A m \in known : m <= j].Close

\* both series have 20 rows and the current VIX level is known
VixLevelKnown ==
    /\ EnsembleReturned
    /\ vix_data # NoneValue
    /\ Len(vix_data) >= 20
    /\ Len(call.window) >= 20
    /\ HasCol(vix_data, "Close")
    /\ HasCol(call.window, "Close")
    /\ VixOn(Len(call.window)) # NaN

\* the vote the three tiers give for the window of the last call; the
\* 5-day change counts as 0 when the level five days before is unknown, the
\* 20-day average is taken over the known levels
TierVote ==
    LET n == Len(call.window)
        v == VixOn(n)
        ago == VixOn(n - 5)
        change == IF ago # NaN /\ ago > 0 THEN 100 * (v - ago) ELSE 0
        base == IF ago # NaN /\ ago > 0 THEN ago ELSE 1
        days == {i \in (n - 19)..n : VixOn(i) # NaN}
        total == SumRange([i \in (n - 19)..n |->
                              IF VixOn(i) = NaN THEN 0 ELSE VixOn(i)],
                          n - 19, n)
        c == call.window[n].Close
        c0 == call.window[n - 10].Close
    IN  IF v > 25
        THEN (IF change > 10 * base THEN 3
              ELSE IF 10 * v * Cardinality(days) > 12 * total THEN 2 ELSE 0)
        ELSE IF v >= 15
        THEN (IF change < (-5) * base THEN 1
              ELSE IF change > 5 * base THEN -1 ELSE 0)
        ELSE (IF 100 * (c - c0) > 2 * c0 THEN 2
              ELSE IF 100 * (c - c0) < (-2) * c0 THEN -2 ELSE 1)

\* C28: with at least 20 rows of both series and a known current VIX level
\* v, the VIX Regime vote is the one of the tier of v: v > 25 gives +3 if
\* the 5-day change is > 10%, else +2 if v > 1.2 x its 20-day average, else
\* 0; 15 <= v <= 25 gives +1 if the 5-day change is < -5%, -1 if > +5%,
\* else 0; v < 15 gives +2 if the 10-day momentum is > 2%, -2 if < -2%,
\* else +1.  The vote is never -3, and never 0 when v < 15.
C28_VixTiers ==
    /\ EnsembleReturned =>
           /\ call.out.breakdown[8].model = "VIX Regime"
           /\ call.out.breakdown[8].vote # -3
    /\ VixLevelKnown =>
           /\ call.out.breakdown[8].vote = TierVote
           /\ VixOn(Len(call.window)) < 15 => call.out.breakdown[8].vote # 0

\* the VIX level is exactly 25 after a rise of more than 10% in five days,
\* and the vote is the -1 of the Normal tier
C28_Witness ==
    /\ VixLevelKnown
    /\ VixOn(Len(call.window)) = 25
    /\ 10 * VixOn(Len(call.window)) > 11 * VixOn(Len(call.window) - 5)
    /\ call.out.breakdown[8].vote = -1

\* the close of sector sym known on the day of row i of the window of the
\* last call: that of its latest row dated at or before that day
SectorOn(sym, i) ==
    LET known == {j \in 1..Len(sector_data[sym]) :
                     sector_data[sym][j].date <= call.window[i].date}
    IN  IF known = {} THEN NaN
        ELSE sector_data[sym][CHOOSE j \in known : \A m \in known : m <= j].Close

\* the sectors whose 10-day momentum can be computed
WithMomentum ==
    {sym \in DOMAIN sector_data :
        /\ Len(sector_data[sym]) >= 11
        /\ SectorOn(sym, Len(call.window)) # NaN
        /\ SectorOn(sym, Len(call.window) - 10) # NaN
        /\ SectorOn(sym, Len(call.window) - 10) > 0}

\* 100 * now - (100 + pct) * then: its sign is that of momentum - pct %
MomentumAbove(sym, pct) ==
    100 * SectorOn(sym, Len(call.window))
        - (100 + pct) * SectorOn(sym, Len(call.window) - 10)

Rising == {sym \in WithMomentum : MomentumAbove(sym, 0) > 0}
Falling == {sym \in WithMomentum : MomentumAbove(sym, 0) < 0}

\* C29: with at least 15 rows and sector data, Sector Rotation votes +2 if
\* the 10-day momentum of XLK is > +2%, -2 if it is < -2%, and otherwise the
\* majority of the sectors' momentum signs: +1 if more sectors rise than
\* fall, -1 if more fall than rise, 0 on a tie; if no sector momentum can
\* be computed or sector data is missing the vote is 0.
C29_SectorVote ==
    EnsembleReturned =>
        /\ call.out.breakdown[10].model = "Sector Rotation"
        /\ call.out.breakdown[10].vote =
               IF DOMAIN sector_data = {} \/ Len(call.window) < 15
                  \/ WithMomentum = {}
               THEN 0
               ELSE IF "XLK" \in WithMomentum /\ MomentumAbove("XLK", 2) > 0
               THEN 2
               ELSE IF "XLK" \in WithMomentum /\ MomentumAbove("XLK", -2) < 0
               THEN -2
               ELSE IF Cardinality(Rising) > Cardinality(Falling) THEN 1
               ELSE IF Cardinality(Falling) > Cardinality(Rising) THEN -1
               ELSE 0

\* the lowest and the highest vote of each model, in breakdown order
LowestVotes == <<-1, -1, -3, -1, 0, -3, -1, -2, -2, -2>>
HighestVotes == <<1, 1, 3, 1, 1, 3, 1, 3, 2, 2>>

\* C30: for every input net_vote lies in [-16, +18], the sums of the lowest
\* and of the highest votes the models produce, the Factor Model never
\* voting below 0 and VIX Regime never below -2.
C30_NetVoteRange ==
    EnsembleReturned =>
        /\ \A k \in 1..10 :
               /\ call.out.breakdown[k].vote >= LowestVotes[k]
               /\ call.out.breakdown[k].vote <= HighestVotes[k]
        /\ SumRange(LowestVotes, 1, 10) = -16
        /\ SumRange(HighestVotes, 1, 10) = 18
        /\ call.out.net_vote >= -16
        /\ call.out.net_vote <= 18

\* VIX Regime votes its lowest, -2, the Factor Model its lowest, 0, and at
\* least three models vote against the market
C30_Witness ==
    /\ EnsembleReturned
    /\ call.out.breakdown[8].vote = -2
    /\ call.out.breakdown[5].vote = 0
    /\ Cardinality({k \in 1..10 : call.out.breakdown[k].vote < 0}) >= 3
    /\ call.out.net_vote <= -3

=============================================================================
